---- MODULE Spec2Model ----
(***************************************************************************)
(* folly::coro::detail::AwaitWrapper (folly/experimental/coro/             *)
(* AwaitWrapper.h): an awaitable adapter that, when created with an        *)
(* Executor, routes the resumption of the awaiting coroutine through a     *)
(* private trampoline coroutine whose final awaiter posts the awaiting     *)
(* coroutine's handle to the executor.                                     *)
(*                                                                         *)
(* Three threads of control are modelled: the driver (the awaiting         *)
(* coroutine's await machinery, which calls await_ready / await_suspend /  *)
(* await_resume and the destructor), the completer (the wrapped operation, *)
(* which resumes the handle it was given) and the executor (which runs     *)
(* what was posted to it).                                                 *)
(***************************************************************************)
EXTENDS Integers, Sequences, FiniteSets, TLC

\* ------------------------------------------------------------- bounds
MaxCalls == 3      \* suspend-protocol calls the driver makes on one adapter
MaxResignals == 1
MaxMoves == 2  \* repeated completion signals for a handle already resumed

\* ------------------------------------------------------------ handles
Continuations == {"c1", "c2"}   \* coroutine_handle<> of awaiting coroutines
NullHandle == "null"            \* a default-constructed coroutine_handle<>
TrampHandle == "tramp"          \* coroutine_handle<promise_type>::from_promise(*promise_)
OtherHandle == "other"          \* a handle a wrapped await_suspend may return
NullPromise == "nullptr"        \* promise_{nullptr}
ThePromise == "promise"         \* address of the trampoline frame's promise
Executors == {"E"}
NoExecutor == "none"
Nullopt == [engaged |-> FALSE]

\* The wrapped awaiters the adapter is instantiated with: what await_ready
\* answers, the return type of await_suspend, what await_resume produces
\* ("err": it throws).
\* What awaitable_ holds when Awaitable is a std::reference_wrapper: the
\* reference to `original`.
ReferenceWrapper == [get |-> "original"]

\* `original` when the adapter was built on no reference.
NoAwaiter == [referent |-> FALSE]

Awaitables ==
  [ready : {"true", "false"},
   suspendType : {"void", "bool", "handle"},
   result : {"v1", "v2", "err"}]

VARIABLES
  life,          \* "none" (not yet created), "alive", "destroyed"
  entry,         \* the entry point that created the adapter
  promise_,      \* AwaitWrapper::promise_
  awaitable_,    \* AwaitWrapper::awaitable_ (Optional<Awaitable>)
  husks,         \* the instances the adapter was moved from, oldest first
  huskFrameDestroys, \* destroy() calls on the frame by moved-from instances
  awaitersDestroyed, \* destructions of an awaiter an instance owned
  original,      \* the awaiter an adapter built on a reference refers to
  conversions,   \* the get_awaiter strategies that ran, in order
  destroyedIn,   \* the trampoline's state when the adapter was destroyed
  frame,         \* the trampoline coroutine frame promise_ points to
  framesCreated, \* calls of awaitWrapper()
  framesDestroyed, \* coroutine_handle::destroy() calls on the frame
  held,          \* handles the wrapped operation will resume on completion
  signalled,     \* handles the wrapped operation has resumed
  resignals,     \* repeated completion signals so far
  trampResumes,  \* resume() calls on the trampoline's handle
  deadAccess,    \* reads and writes of the frame after its destroy()
  pcSuspend,     \* driver inside await_suspend (executor path)
  pcFire,        \* completer inside FinalAwaiter::await_suspend
  queue,         \* functions the executor holds, not yet run
  adds,          \* every call of Executor::add: the function, whether it threw
  proc,          \* "running", "segv", "terminated"
  fatal,         \* the fatal report that ended the process, if any
  calls,         \* calls made on the adapter: op, argument, result
  wcalls,        \* calls the adapter made on the wrapped awaiter
  resumed        \* resumptions of awaiting coroutines: handle, thread

vars == <<life, entry, promise_, awaitable_, husks, huskFrameDestroys,
          awaitersDestroyed, original, conversions, destroyedIn, frame,
          framesCreated,
          framesDestroyed, held, signalled, resignals, trampResumes,
          deadAccess, pcSuspend, pcFire,
          queue, adds, proc, fatal, calls, wcalls, resumed>>

\* What only construction, moves and destruction change.
moveVars ==
  <<husks, huskFrameDestroys, awaitersDestroyed, original, conversions,
    destroyedIn>>
adapterVars == <<life, entry, promise_, awaitable_, framesCreated, framesDestroyed,
                 moveVars>>
envVars == <<held, signalled, resignals>>
execVars == <<queue, adds>>
procVars == <<proc, fatal>>
logVars == <<calls, wcalls>>

Idle == [pc |-> "idle", arg |-> NullHandle, ret |-> "none"]
NotFiring == [pc |-> "idle", executor |-> NoExecutor, func |-> NullHandle]

\* A frame that was never allocated.
NoFrame ==
  [alive |-> FALSE, point |-> "none", executor_ |-> NoExecutor,
   awaiter_ |-> NullHandle]

RemoveAt(s, i) == SubSeq(s, 1, i - 1) \o SubSeq(s, i + 1, Len(s))

Init ==
  /\ life = "none"
  /\ entry = "none"
  /\ promise_ = NullPromise
  /\ awaitable_ = Nullopt
  /\ husks = <<>>
  /\ huskFrameDestroys = 0
  /\ awaitersDestroyed = 0
  /\ original = NoAwaiter
  /\ conversions = <<>>
  /\ destroyedIn = "none"
  /\ frame = NoFrame
  /\ framesCreated = 0
  /\ framesDestroyed = 0
  /\ held = <<>>
  /\ signalled = {}
  /\ resignals = 0
  /\ trampResumes = 0
  /\ deadAccess = 0
  /\ pcSuspend = Idle
  /\ pcFire = NotFiring
  /\ queue = <<>>
  /\ adds = <<>>
  /\ proc = "running"
  /\ fatal = "none"
  /\ calls = <<>>
  /\ wcalls = <<>>
  /\ resumed = <<>>

\* --------------------------------------------- the wrapped awaiter
\* getRef(*awaitable_): the awaiter the Optional holds, or the awaiter the
\* std::reference_wrapper it holds refers to (t.get()).
getRef(a) == IF a = ReferenceWrapper THEN original ELSE a

Wrapped_await_ready(a) == a.ready

\* What the wrapped await_suspend may return, by its return type.
Wrapped_await_suspend_results(a) ==
  CASE a.suspendType = "void" -> {"void"}
    [] a.suspendType = "bool" -> {"true", "false"}
    [] a.suspendType = "handle" -> {OtherHandle}

\* The wrapped awaiter keeps the handle for its completion unless it
\* answered false (no suspension happened).
Wrapped_keeps(r) == r # "false"

Wrapped_await_resume(a) == a.result

\* ------------------------------------------------ process endings
Crash == proc' = "segv" /\ fatal' = fatal

\* An exception leaving a noexcept function: std::terminate().
std_terminate == proc' = "terminated" /\ fatal' = "std::terminate"

\* promise_type::unhandled_exception: LOG(FATAL).
unhandled_exception == proc' = "terminated" /\ fatal' = "LOG(FATAL)"

\* ------------------------------------------------------ construction
\* awaitWrapper(): allocates the frame, get_return_object() hands out the
\* promise, initial_suspend() leaves the coroutine suspended at its start.
\* awaiter_ is a default-constructed handle; executor_ has no initializer
\* and is assigned by create before anything reads it.
awaitWrapper ==
  [alive |-> TRUE, point |-> "initial", executor_ |-> NoExecutor,
   awaiter_ |-> NullHandle]

\* Variant of create(Awaitable&&, Executor*) that puts off the trampoline:
\* nothing is allocated at construction.
createExec_lazy(a, e) ==
  /\ life = "none"
  /\ life' = "alive"
  /\ entry' = "createExec"
  /\ awaitable_' = a
  /\ UNCHANGED <<promise_, frame, framesCreated, framesDestroyed, moveVars>>
  /\ UNCHANGED <<envVars, trampResumes, deadAccess, pcSuspend, pcFire, execVars,
                 procVars, logVars, resumed>>

\* create(Awaitable&&, Executor*)
createExec(a, e) ==
  /\ life = "none"
  /\ life' = "alive"
  /\ entry' = "createExec"
  /\ promise_' = ThePromise
  /\ framesCreated' = framesCreated + 1
  /\ awaitable_' = a
  /\ frame' = [awaitWrapper EXCEPT !.executor_ = e]
  /\ UNCHANGED <<framesDestroyed, moveVars>>
  /\ UNCHANGED <<envVars, trampResumes, deadAccess, pcSuspend, pcFire, execVars,
                 procVars, logVars, resumed>>

\* Variant of create(Awaitable&&) that allocates a trampoline all the same.
create_with_trampoline(a) ==
  /\ life = "none"
  /\ life' = "alive"
  /\ entry' = "create"
  /\ promise_' = ThePromise
  /\ framesCreated' = framesCreated + 1
  /\ awaitable_' = a
  /\ \E e \in Executors : frame' = [awaitWrapper EXCEPT !.executor_ = e]
  /\ UNCHANGED <<framesDestroyed, moveVars>>
  /\ UNCHANGED <<envVars, trampResumes, deadAccess, pcSuspend, pcFire, execVars,
                 procVars, logVars, resumed>>

\* create(Awaitable&&)
create(a) ==
  /\ life = "none"
  /\ life' = "alive"
  /\ entry' = "create"
  /\ awaitable_' = a
  /\ UNCHANGED <<promise_, frame, framesCreated, framesDestroyed, moveVars>>
  /\ UNCHANGED <<envVars, trampResumes, deadAccess, pcSuspend, pcFire, execVars,
                 procVars, logVars, resumed>>

\* ------------------------------------------------- createAwaitWrapper
\* What a conversion to an awaiter yields, where the awaitable offers it.
Yields == {"none", "value", "reference"}

\* The awaitables createAwaitWrapper accepts: a member operator co_await,
\* a free operator co_await, the suspend protocol itself, in every
\* combination that compiles (one of the three at least).
Candidates ==
  {k \in [member : Yields, free : Yields, native : BOOLEAN] :
     k.member # "none" \/ k.free # "none" \/ k.native}

\* The awaiters the three strategies end in (three objects that differ).
MemberAwaiter == [ready |-> "false", suspendType |-> "void", result |-> "v1"]
FreeAwaiter == [ready |-> "false", suspendType |-> "bool", result |-> "v2"]
SelfAwaiter == [ready |-> "false", suspendType |-> "handle", result |-> "v1"]

\* Variant of get_awaiter that tries the free conversion first.
get_awaiter_free_first(k) ==
  IF k.free # "none"
    THEN [strategy |-> "free", ref |-> k.free = "reference", aw |-> FreeAwaiter]
    ELSE IF k.member # "none"
      THEN [strategy |-> "member", ref |-> k.member = "reference",
            aw |-> MemberAwaiter]
      ELSE [strategy |-> "self", ref |-> TRUE, aw |-> SelfAwaiter]

\* get_awaiter: the member operator co_await if there is one, else the
\* free one if there is one, else static_cast<Awaitable&>(awaitable), an
\* lvalue reference to the awaitable itself.
get_awaiter(k) ==
  IF k.member # "none"
    THEN [strategy |-> "member", ref |-> k.member = "reference",
          aw |-> MemberAwaiter]
    ELSE IF k.free # "none"
      THEN [strategy |-> "free", ref |-> k.free = "reference", aw |-> FreeAwaiter]
      ELSE [strategy |-> "self", ref |-> TRUE, aw |-> SelfAwaiter]

\* Variant of Wrapper that is the decayed awaiter type: a copy is stored
\* whatever get_awaiter returns.
Wrapper_decays(g) == g.aw

\* Wrapper: std::reference_wrapper when get_awaiter returns a reference,
\* the awaiter type itself otherwise.
Wrapper(g) == IF g.ref THEN ReferenceWrapper ELSE g.aw

\* The one evaluated call of get_awaiter (the one inside decltype is not
\* evaluated) and what the adapter is constructed on.
Converted(k) ==
  LET g == get_awaiter(k) IN
    /\ conversions' = Append(conversions, [of |-> k, strategy |-> g.strategy])
    /\ original' = IF g.ref THEN g.aw ELSE NoAwaiter
    /\ awaitable_' = Wrapper(g)
    /\ UNCHANGED <<husks, huskFrameDestroys, awaitersDestroyed, destroyedIn>>

\* createAwaitWrapper(Awaitable&&)
createAwaitWrapper(k) ==
  /\ life = "none"
  /\ life' = "alive"
  /\ entry' = "create"
  /\ Converted(k)
  /\ UNCHANGED <<promise_, frame, framesCreated, framesDestroyed>>
  /\ UNCHANGED <<envVars, trampResumes, deadAccess, pcSuspend, pcFire, execVars,
                 procVars, logVars, resumed>>

\* createAwaitWrapper(Awaitable&&, folly::Executor*)
createAwaitWrapperExec(k, e) ==
  /\ life = "none"
  /\ life' = "alive"
  /\ entry' = "createExec"
  /\ Converted(k)
  /\ promise_' = ThePromise
  /\ framesCreated' = framesCreated + 1
  /\ frame' = [awaitWrapper EXCEPT !.executor_ = e]
  /\ UNCHANGED framesDestroyed
  /\ UNCHANGED <<envVars, trampResumes, deadAccess, pcSuspend, pcFire, execVars,
                 procVars, logVars, resumed>>

\* The awaiter the adapter refers to changes state behind the adapter's
\* back: its operation completes, with any result.
MutateOriginal ==
  /\ proc = "running"
  /\ life = "alive"
  /\ original # NoAwaiter
  /\ original.ready = "false"
  /\ \E r \in {"v1", "v2", "err"} :
       original' = [original EXCEPT !.ready = "true", !.result = r]
  /\ UNCHANGED <<life, entry, promise_, awaitable_, framesCreated, framesDestroyed,
                 husks, huskFrameDestroys, awaitersDestroyed, conversions,
                 destroyedIn>>
  /\ UNCHANGED <<frame, envVars, trampResumes, deadAccess, pcSuspend, pcFire,
                 execVars, procVars, logVars, resumed>>

\* ------------------------------------------------ suspend protocol
CanCall ==
  /\ proc = "running"
  /\ life = "alive"
  /\ pcSuspend.pc = "idle"
  /\ Len(calls) < MaxCalls

Call(op, arg, ret) == [op |-> op, arg |-> arg, ret |-> ret]

\* Variant of await_ready that answers false whatever the awaiter says.
await_ready_false ==
  /\ CanCall
  /\ LET r == Wrapped_await_ready(getRef(awaitable_)) IN
       /\ wcalls' = Append(wcalls, Call("ready", NullHandle, r))
       /\ calls' = Append(calls, Call("ready", NullHandle, "false"))
  /\ UNCHANGED <<adapterVars, frame, envVars, trampResumes, deadAccess, pcSuspend,
                 pcFire, execVars, procVars, resumed>>

\* AwaitWrapper::await_ready
await_ready ==
  /\ CanCall
  /\ LET r == Wrapped_await_ready(getRef(awaitable_)) IN
       /\ wcalls' = Append(wcalls, Call("ready", NullHandle, r))
       /\ calls' = Append(calls, Call("ready", NullHandle, r))
  /\ UNCHANGED <<adapterVars, frame, envVars, trampResumes, deadAccess, pcSuspend,
                 pcFire, execVars, procVars, resumed>>

\* Variant of the first statement that allocates the trampoline lazily, at
\* every suspend.
await_suspend_arm_lazy(c) ==
  /\ CanCall
  /\ promise_ # NullPromise
  /\ frame' = [awaitWrapper EXCEPT !.executor_ = frame.executor_,
                                   !.awaiter_ = c]
  /\ framesCreated' = framesCreated + 1
  /\ pcSuspend' = [pc |-> "armed", arg |-> c, ret |-> "none"]
  /\ UNCHANGED <<life, entry, promise_, awaitable_, framesDestroyed, moveVars>>
  /\ UNCHANGED <<envVars, trampResumes, deadAccess, pcFire, execVars, procVars, logVars,
                 resumed>>

\* Variant of the first statement that does not store the continuation.
await_suspend_arm_forgets(c) ==
  /\ CanCall
  /\ promise_ # NullPromise
  /\ pcSuspend' = [pc |-> "armed", arg |-> c, ret |-> "none"]
  /\ UNCHANGED <<adapterVars, frame, envVars, trampResumes, deadAccess, pcFire, execVars,
                 procVars, logVars, resumed>>

\* Variant of await_suspend that hands the trampoline's handle to the
\* wrapped awaiter first and leaves the store of the continuation for
\* after the call.
await_suspend_arm_after_publish(c) ==
  /\ CanCall
  /\ promise_ # NullPromise
  /\ \E r \in Wrapped_await_suspend_results(getRef(awaitable_)) :
       /\ held' = IF Wrapped_keeps(r) THEN Append(held, TrampHandle) ELSE held
       /\ wcalls' = Append(wcalls, Call("suspend", TrampHandle, r))
       /\ pcSuspend' = [pc |-> "published", arg |-> c, ret |-> r]
  /\ UNCHANGED <<adapterVars, frame, signalled, resignals, trampResumes, deadAccess,
                 pcFire, execVars, procVars, calls, resumed>>

\* AwaitWrapper::await_suspend, executor path, first statement:
\* promise_->awaiter_ = std::move(awaiter). The call is two steps because
\* the completer runs concurrently with it once the handle is published.
await_suspend_arm(c) ==
  /\ CanCall
  /\ promise_ # NullPromise
  /\ frame' = [frame EXCEPT !.awaiter_ = c]
  /\ pcSuspend' = [pc |-> "armed", arg |-> c, ret |-> "none"]
  /\ UNCHANGED <<adapterVars, envVars, trampResumes, deadAccess, pcFire, execVars,
                 procVars, logVars, resumed>>

\* Variant of the second statement that hands the wrapped awaiter the
\* caller's continuation.
await_suspend_publish_caller ==
  /\ proc = "running"
  /\ pcSuspend.pc = "armed"
  /\ \E r \in Wrapped_await_suspend_results(getRef(awaitable_)) :
       /\ held' = IF Wrapped_keeps(r) THEN Append(held, pcSuspend.arg) ELSE held
       /\ wcalls' = Append(wcalls, Call("suspend", pcSuspend.arg, r))
       /\ pcSuspend' = [pcSuspend EXCEPT !.pc = "published", !.ret = r]
  /\ UNCHANGED <<adapterVars, frame, signalled, resignals, trampResumes, deadAccess,
                 pcFire, execVars, procVars, calls, resumed>>

\* Variant of the second statement that also posts the continuation to the
\* executor right away.
await_suspend_publish_posts ==
  /\ proc = "running"
  /\ pcSuspend.pc = "armed"
  /\ \E r \in Wrapped_await_suspend_results(getRef(awaitable_)) :
       /\ held' = IF Wrapped_keeps(r) THEN Append(held, TrampHandle) ELSE held
       /\ wcalls' = Append(wcalls, Call("suspend", TrampHandle, r))
       /\ pcSuspend' = [pcSuspend EXCEPT !.pc = "published", !.ret = r]
  /\ adds' = Append(adds, [f |-> pcSuspend.arg, threw |-> FALSE])
  /\ queue' = Append(queue, pcSuspend.arg)
  /\ UNCHANGED <<adapterVars, frame, signalled, resignals, trampResumes, deadAccess,
                 pcFire, procVars, calls, resumed>>

\* AwaitWrapper::await_suspend, executor path, second statement, the call:
\* the wrapped await_suspend is given the trampoline's handle. From here on
\* the wrapped operation may complete, before the call has returned.
await_suspend_publish ==
  /\ proc = "running"
  /\ pcSuspend.pc = "armed"
  /\ \E r \in Wrapped_await_suspend_results(getRef(awaitable_)) :
       /\ held' = IF Wrapped_keeps(r) THEN Append(held, TrampHandle) ELSE held
       /\ wcalls' = Append(wcalls, Call("suspend", TrampHandle, r))
       /\ pcSuspend' = [pcSuspend EXCEPT !.pc = "published", !.ret = r]
  /\ UNCHANGED <<adapterVars, frame, signalled, resignals, trampResumes, deadAccess,
                 pcFire, execVars, procVars, calls, resumed>>

\* Variant of the return that returns nothing of what the wrapped
\* await_suspend returned.
await_suspend_return_void ==
  /\ proc = "running"
  /\ pcSuspend.pc = "published"
  /\ calls' = Append(calls, Call("suspend", pcSuspend.arg, "void"))
  /\ pcSuspend' = Idle
  /\ UNCHANGED <<adapterVars, frame, envVars, trampResumes, deadAccess, pcFire,
                 execVars, procVars, wcalls, resumed>>

\* AwaitWrapper::await_suspend, executor path, second statement, the
\* return: what the wrapped await_suspend returned is returned as it is.
await_suspend_return ==
  /\ proc = "running"
  /\ pcSuspend.pc = "published"
  /\ calls' = Append(calls, Call("suspend", pcSuspend.arg, pcSuspend.ret))
  /\ pcSuspend' = Idle
  /\ UNCHANGED <<adapterVars, frame, envVars, trampResumes, deadAccess, pcFire,
                 execVars, procVars, wcalls, resumed>>

\* AwaitWrapper::await_suspend without a promise: plain delegation.
await_suspend_direct(c) ==
  /\ CanCall
  /\ promise_ = NullPromise
  /\ \E r \in Wrapped_await_suspend_results(getRef(awaitable_)) :
       /\ held' = IF Wrapped_keeps(r) THEN Append(held, c) ELSE held
       /\ wcalls' = Append(wcalls, Call("suspend", c, r))
       /\ calls' = Append(calls, Call("suspend", c, r))
  /\ UNCHANGED <<adapterVars, frame, signalled, resignals, trampResumes, deadAccess,
                 pcSuspend, pcFire, execVars, procVars, resumed>>

\* Variant of await_resume that catches the awaiter's error and reports
\* another in its place.
await_resume_wraps ==
  /\ CanCall
  /\ LET r == Wrapped_await_resume(getRef(awaitable_)) IN
       /\ wcalls' = Append(wcalls, Call("resume", NullHandle, r))
       /\ calls' = Append(calls, Call("resume", NullHandle,
                                      IF r = "err" THEN "wrapped" ELSE r))
  /\ UNCHANGED <<adapterVars, frame, envVars, trampResumes, deadAccess, pcSuspend,
                 pcFire, execVars, procVars, resumed>>

\* AwaitWrapper::await_resume
await_resume ==
  /\ CanCall
  /\ LET r == Wrapped_await_resume(getRef(awaitable_)) IN
       /\ wcalls' = Append(wcalls, Call("resume", NullHandle, r))
       /\ calls' = Append(calls, Call("resume", NullHandle, r))
  /\ UNCHANGED <<adapterVars, frame, envVars, trampResumes, deadAccess, pcSuspend,
                 pcFire, execVars, procVars, resumed>>

\* The trampoline's state, read off its frame: Created (suspended at its
\* initial point, no continuation stored), Armed (suspended at its initial
\* point, a continuation stored), Fired (resumed: past its body, at its
\* final suspend point).
TrampState ==
  CASE frame.point = "none" -> "None"
    [] frame.point = "initial" /\ frame.awaiter_ = NullHandle -> "Created"
    [] frame.point = "initial" /\ frame.awaiter_ # NullHandle -> "Armed"
    [] frame.point = "final" -> "Fired"

\* ~Optional<Awaitable>: an engaged Optional destroys the value it holds;
\* a std::reference_wrapper it holds owns nothing.
Owned(o) == IF o = Nullopt \/ o = ReferenceWrapper THEN 0 ELSE 1

\* Variant of the destructor that leaves the trampoline frame allocated.
Destroy_leaks ==
  /\ proc = "running"
  /\ life = "alive"
  /\ pcSuspend.pc = "idle"
  /\ life' = "destroyed"
  /\ awaitable_' = Nullopt
  /\ awaitersDestroyed' = awaitersDestroyed + Owned(awaitable_)
  /\ UNCHANGED <<entry, promise_, frame, framesCreated, framesDestroyed>>
  /\ destroyedIn' = TrampState
  /\ UNCHANGED <<husks, huskFrameDestroys, original, conversions>>
  /\ UNCHANGED <<envVars, trampResumes, deadAccess, pcSuspend, pcFire, execVars,
                 procVars, logVars, resumed>>

\* AwaitWrapper::~AwaitWrapper
Destroy ==
  /\ proc = "running"
  /\ life = "alive"
  /\ pcSuspend.pc = "idle"
  /\ life' = "destroyed"
  /\ IF promise_ # NullPromise
       THEN /\ frame' = [frame EXCEPT !.alive = FALSE]
            /\ framesDestroyed' = framesDestroyed + 1
       ELSE UNCHANGED <<frame, framesDestroyed>>
  /\ awaitable_' = Nullopt
  /\ awaitersDestroyed' = awaitersDestroyed + Owned(awaitable_)
  /\ UNCHANGED <<entry, promise_, framesCreated>>
  /\ destroyedIn' = TrampState
  /\ UNCHANGED <<husks, huskFrameDestroys, original, conversions>>
  /\ UNCHANGED <<envVars, trampResumes, deadAccess, pcSuspend, pcFire, execVars,
                 procVars, logVars, resumed>>

\* ------------------------------------------------------------- moves
\* folly::Optional's move constructor: the new Optional holds the value
\* moved out of the source, and the source is left disengaged.
Optional_move(src) == [to |-> src, from |-> Nullopt]

\* A moved-from instance: what the move constructor leaves in `other`.
Husk(p, o) == [life |-> "alive", promise_ |-> p, awaitable_ |-> o]

\* Variant of the move constructor that copies promise_ and leaves the
\* source's pointer in place.
Move_copies_promise ==
  /\ proc = "running"
  /\ life = "alive"
  /\ pcSuspend.pc = "idle"
  /\ Len(husks) < MaxMoves
  /\ awaitable_' = Optional_move(awaitable_).to
  /\ husks' = Append(husks, Husk(promise_, Optional_move(awaitable_).from))
  /\ UNCHANGED <<life, entry, promise_, framesCreated, framesDestroyed>>
  /\ UNCHANGED <<huskFrameDestroys, awaitersDestroyed, original, conversions,
                 destroyedIn>>
  /\ UNCHANGED <<frame, envVars, trampResumes, deadAccess, pcSuspend, pcFire,
                 execVars, procVars, logVars, resumed>>

\* AwaitWrapper(AwaitWrapper&& other): the new instance takes promise_
\* (std::exchange(other.promise_, nullptr)) and awaitable_
\* (std::move(other.awaitable_)). The variables life, promise_ and
\* awaitable_ follow the instance that was constructed last; `other` joins
\* the moved-from instances.
Move ==
  /\ proc = "running"
  /\ life = "alive"
  /\ pcSuspend.pc = "idle"
  /\ Len(husks) < MaxMoves
  /\ promise_' = promise_
  /\ awaitable_' = Optional_move(awaitable_).to
  /\ husks' = Append(husks, Husk(NullPromise, Optional_move(awaitable_).from))
  /\ UNCHANGED <<life, entry, framesCreated, framesDestroyed>>
  /\ UNCHANGED <<huskFrameDestroys, awaitersDestroyed, original, conversions,
                 destroyedIn>>
  /\ UNCHANGED <<frame, envVars, trampResumes, deadAccess, pcSuspend, pcFire,
                 execVars, procVars, logVars, resumed>>

\* AwaitWrapper::~AwaitWrapper of the moved-from instance i.
DestroyHusk(i) ==
  /\ proc = "running"
  /\ i \in DOMAIN husks
  /\ husks[i].life = "alive"
  /\ husks' = [husks EXCEPT ![i].life = "destroyed", ![i].awaitable_ = Nullopt]
  /\ IF husks[i].promise_ # NullPromise
       THEN /\ frame' = [frame EXCEPT !.alive = FALSE]
            /\ framesDestroyed' = framesDestroyed + 1
            /\ huskFrameDestroys' = huskFrameDestroys + 1
       ELSE UNCHANGED <<frame, framesDestroyed, huskFrameDestroys>>
  /\ awaitersDestroyed' = awaitersDestroyed + Owned(husks[i].awaitable_)
  /\ UNCHANGED <<life, entry, promise_, awaitable_, framesCreated, original,
                 conversions, destroyedIn>>
  /\ UNCHANGED <<envVars, trampResumes, deadAccess, pcSuspend, pcFire, execVars,
                 procVars, logVars, resumed>>

\* ------------------------------------------------------- trampoline
\* The body of awaitWrapper() is `co_return;`: it cannot throw.
BodyThrows == FALSE

\* The trampoline resumed from its initial suspend point, up to the call of
\* add (a step of its own: the driver and the executor run concurrently
\* with the completer). The body runs
\* (inside the try block whose handler is unhandled_exception), then
\* final_suspend(): FinalAwaiter::await_ready() is false, the frame is
\* marked suspended at its final point and FinalAwaiter::await_suspend
\* reads p.executor_ and p.awaiter_ for the call of add.
final_suspend ==
  IF BodyThrows
    THEN unhandled_exception /\ UNCHANGED <<frame, pcFire>>
    ELSE /\ frame' = [frame EXCEPT !.point = "final"]
         /\ pcFire' = [pc |-> "add", executor |-> frame.executor_,
                       func |-> frame.awaiter_]
         /\ UNCHANGED procVars

\* Variant of the resumed frame that fires again from its final suspend
\* point.
ResumeFrame_refires == final_suspend

\* resume() of the trampoline's handle on the frame as it stands. The source
\* installs no guard against a second resume. A frame suspended at its final
\* suspend point has no resumption: resuming it is undefined behaviour, and
\* what the compilers' frames make of it is a call through the resume slot
\* that final suspension cleared, which faults.
ResumeFrame ==
  IF frame.point = "initial"
    THEN final_suspend
    ELSE Crash /\ UNCHANGED <<frame, pcFire>>

\* resume() of the trampoline's handle. After destroy() the handle dangles:
\* the call either faults or finds the freed frame's bytes still in place.
TrampolineResume ==
  IF frame.alive
    THEN ResumeFrame /\ UNCHANGED deadAccess
    ELSE /\ deadAccess' = deadAccess + 1
         /\ \/ Crash /\ UNCHANGED <<frame, pcFire>>
            \/ ResumeFrame

\* coroutine_handle<>::resume() by thread `by`.
coroutine_resume(h, by) ==
  IF h = TrampHandle
    THEN /\ trampResumes' = trampResumes + 1
         /\ TrampolineResume
         /\ UNCHANGED resumed
    ELSE /\ UNCHANGED <<trampResumes, deadAccess, frame, pcFire>>
         /\ IF h = NullHandle
              THEN Crash /\ UNCHANGED resumed
              ELSE /\ resumed' = Append(resumed, [h |-> h, by |-> by])
                   /\ UNCHANGED procVars

\* Executor::add(Func): the executor keeps the function to run it later.
Executor_add(q, f) == Append(q, f)

\* Variant of FinalAwaiter::await_suspend that catches what add throws and
\* carries on.
FinalAwaiter_await_suspend_swallows(throws) ==
  /\ proc = "running"
  /\ pcFire.pc = "add"
  /\ adds' = Append(adds, [f |-> pcFire.func, threw |-> throws])
  /\ queue' = IF throws THEN queue ELSE Executor_add(queue, pcFire.func)
  /\ pcFire' = [pcFire EXCEPT !.pc = "returning"]
  /\ UNCHANGED <<adapterVars, frame, envVars, trampResumes, deadAccess, pcSuspend,
                 procVars, logVars, resumed>>

\* FinalAwaiter::await_suspend (noexcept): p.executor_->add(p.awaiter_),
\* the call of add on the values read from the frame. When add throws the
\* call never returns.
FinalAwaiter_await_suspend(throws) ==
  /\ proc = "running"
  /\ pcFire.pc = "add"
  /\ adds' = Append(adds, [f |-> pcFire.func, threw |-> throws])
  /\ IF throws
       THEN std_terminate /\ UNCHANGED queue /\ pcFire' = NotFiring
       ELSE /\ queue' = Executor_add(queue, pcFire.func)
            /\ pcFire' = [pcFire EXCEPT !.pc = "returning"]
            /\ UNCHANGED procVars
  /\ UNCHANGED <<adapterVars, frame, envVars, trampResumes, deadAccess, pcSuspend,
                 logVars, resumed>>

\* Variant of the return from add that clears the stored continuation in
\* the frame once it is posted.
FinalAwaiter_return_clears ==
  /\ proc = "running"
  /\ pcFire.pc = "returning"
  /\ pcFire' = NotFiring
  /\ frame' = [frame EXCEPT !.awaiter_ = NullHandle]
  /\ deadAccess' = IF frame.alive THEN deadAccess ELSE deadAccess + 1
  /\ UNCHANGED <<adapterVars, envVars, trampResumes, pcSuspend, execVars,
                 procVars, logVars, resumed>>

\* Variant of the return from add in which the frame destroys itself once
\* the continuation is posted.
FinalAwaiter_return_destroys ==
  /\ proc = "running"
  /\ pcFire.pc = "returning"
  /\ pcFire' = NotFiring
  /\ frame' = [frame EXCEPT !.alive = FALSE]
  /\ framesDestroyed' = framesDestroyed + 1
  /\ UNCHANGED <<life, entry, promise_, awaitable_, framesCreated, moveVars>>
  /\ UNCHANGED <<envVars, trampResumes, deadAccess, pcSuspend, execVars,
                 procVars, logVars, resumed>>

\* FinalAwaiter::await_suspend after add has returned: it returns, the
\* coroutine stays suspended at its final suspend point and resume()
\* returns to the completer. Nothing of the frame is read or written.
FinalAwaiter_return ==
  /\ proc = "running"
  /\ pcFire.pc = "returning"
  /\ pcFire' = NotFiring
  /\ UNCHANGED <<adapterVars, frame, envVars, trampResumes, deadAccess, pcSuspend,
                 execVars, procVars, logVars, resumed>>

\* ------------------------------------------------ wrapped operation
\* The wrapped operation completes: it resumes a handle it was given.
Complete ==
  /\ proc = "running"
  /\ pcFire.pc = "idle"
  /\ \E i \in 1..Len(held) :
       /\ held' = RemoveAt(held, i)
       /\ signalled' = signalled \cup {held[i]}
       /\ coroutine_resume(held[i], "completer")
  /\ UNCHANGED <<adapterVars, resignals, pcSuspend, execVars, logVars>>

\* Misuse by the wrapped operation: it signals completion again for a
\* handle it has resumed before.
CompleteAgain ==
  /\ proc = "running"
  /\ pcFire.pc = "idle"
  /\ resignals < MaxResignals
  /\ \E h \in signalled :
       /\ resignals' = resignals + 1
       /\ coroutine_resume(h, "completer")
  /\ UNCHANGED <<adapterVars, held, signalled, pcSuspend, execVars, logVars>>

\* ---------------------------------------------------------- executor
\* The executor runs the oldest function it holds: Func's operator() is
\* the handle's resume().
ExecutorRun ==
  /\ proc = "running"
  /\ queue # <<>>
  /\ queue' = Tail(queue)
  /\ IF Head(queue) = NullHandle
       THEN Crash /\ UNCHANGED resumed
       ELSE /\ resumed' = Append(resumed, [h |-> Head(queue), by |-> "executor"])
            /\ UNCHANGED procVars
  /\ UNCHANGED <<adapterVars, frame, envVars, trampResumes, deadAccess, pcSuspend,
                 pcFire, adds, logVars>>

Next ==
  \/ \E a \in Awaitables : create(a)
  \/ \E a \in Awaitables, e \in Executors : createExec(a, e)
  \/ await_ready
  \/ \E c \in Continuations : await_suspend_arm(c)
  \/ await_suspend_publish
  \/ await_suspend_return
  \/ \E c \in Continuations : await_suspend_direct(c)
  \/ await_resume
  \/ Destroy
  \/ Complete
  \/ CompleteAgain
  \/ \E t \in BOOLEAN : FinalAwaiter_await_suspend(t)
  \/ FinalAwaiter_return
  \/ ExecutorRun

Spec == Init /\ [][Next]_vars

\* ------------------------------------------------------------ claims
ExecMode == entry = "createExec"
DirectMode == entry = "create"

SuspendCalls == {i \in DOMAIN calls : calls[i].op = "suspend"}

\* The continuations await_suspend has been given so far, the call in
\* progress included.
SuspendArgs ==
  {calls[i].arg : i \in SuspendCalls}
    \cup (IF pcSuspend.pc # "idle" THEN {pcSuspend.arg} ELSE {})

Posted == {i \in DOMAIN adds : ~adds[i].threw}

ResumedCount(c) == Cardinality({i \in DOMAIN resumed : resumed[i].h = c})

\* C1 (forced rescheduling): with an executor, the wrapped awaiter is only
\* ever given the trampoline's handle, never the caller's continuation; the
\* function handed to Executor::add is a continuation await_suspend was
\* given; and a continuation is only ever resumed by the executor, after
\* it was posted, never on the completing thread.
C1_ForcedRescheduling ==
  ExecMode =>
    /\ \A i \in DOMAIN wcalls :
         wcalls[i].op = "suspend" => wcalls[i].arg = TrampHandle
    /\ \A i \in DOMAIN held : held[i] = TrampHandle
    /\ signalled \subseteq {TrampHandle}
    /\ \A i \in DOMAIN adds : adds[i].f \in SuspendArgs
    /\ \A i \in DOMAIN resumed :
         /\ resumed[i].by = "executor"
         /\ \E j \in Posted : adds[j].f = resumed[i].h
    /\ Len(resumed) <= Cardinality(Posted)

C1_Witness ==
  /\ ExecMode
  /\ trampResumes = 1
  /\ calls = <<Call("suspend", "c1", "true")>>
  /\ adds = <<[f |-> "c1", threw |-> FALSE]>>
  /\ resumed = <<[h |-> "c1", by |-> "executor"]>>

\* C2 (ordering): a call of Executor::add only happens in the trampoline's
\* final awaiter, after the wrapped operation has resumed the trampoline;
\* no step of construction, await_ready, await_suspend or await_resume
\* calls add.
C2_PostAfterCompletion ==
  [][Len(adds') > Len(adds) =>
       /\ trampResumes >= 1
       /\ TrampHandle \in signalled
       /\ pcFire.pc = "add"
       /\ calls' = calls
       /\ pcSuspend' = pcSuspend
       /\ life' = life]_vars

C2_Witness ==
  /\ ExecMode
  /\ Len(adds) = 1
  /\ Len(calls) = MaxCalls
  /\ \E i \in DOMAIN calls : calls[i].op = "ready"
  /\ \E i \in DOMAIN calls : calls[i].op = "resume"

SuspendOnce(c) == SuspendCalls = {} /\ await_suspend_arm(c)

NextLive ==
  \/ \E a \in Awaitables, e \in Executors : createExec(a, e)
  \/ await_ready
  \/ \E c \in Continuations : SuspendOnce(c)
  \/ await_suspend_publish
  \/ await_suspend_return
  \/ await_resume
  \/ Complete
  \/ FinalAwaiter_await_suspend(FALSE)
  \/ FinalAwaiter_return
  \/ ExecutorRun

\* Every thread inside a call finishes it, the wrapped operation completes
\* and the executor runs what it holds.
LiveSpec ==
  /\ Init
  /\ [][NextLive]_vars
  /\ WF_vars(await_suspend_publish)
  /\ WF_vars(await_suspend_return)
  /\ WF_vars(Complete)
  /\ WF_vars(FinalAwaiter_await_suspend(FALSE))
  /\ WF_vars(FinalAwaiter_return)
  /\ WF_vars(ExecutorRun)

\* await_suspend(c) has returned and the wrapped awaiter suspended.
Suspended(c) ==
  \E i \in SuspendCalls : calls[i].arg = c /\ calls[i].ret # "false"

\* C5 (eventual single resumption): in a well-formed await with an
\* executor, once await_suspend(c) has returned with the wrapped awaiter
\* suspended, c is eventually resumed, and it is never resumed twice.
C5_EventuallyResumedOnce ==
  \A c \in Continuations :
    /\ Suspended(c) ~> (ResumedCount(c) = 1)
    /\ [](ResumedCount(c) <= 1)

C5_Witness ==
  /\ Suspended("c2")
  /\ ResumedCount("c2") = 1
  /\ resumed[1].by = "executor"
  /\ queue = <<>>

\* C6 (transparency): an adapter created without an executor makes on the
\* wrapped awaiter exactly the calls made on it, with the same continuation,
\* and returns what they return; it has no trampoline and never calls the
\* executor, and the wrapped operation resumes the caller's continuation
\* itself.
C6_Transparent ==
  DirectMode =>
    /\ wcalls = calls
    /\ promise_ = NullPromise
    /\ frame = NoFrame
    /\ framesCreated = 0
    /\ trampResumes = 0
    /\ pcSuspend = Idle
    /\ pcFire = NotFiring
    /\ adds = <<>>
    /\ queue = <<>>
    /\ \A i \in DOMAIN held : held[i] \in SuspendArgs
    /\ \A i \in DOMAIN resumed :
         resumed[i].by = "completer" /\ resumed[i].h \in SuspendArgs

C6_Witness ==
  /\ DirectMode
  /\ Len(calls) = MaxCalls
  /\ calls[1] = Call("ready", NullHandle, "false")
  /\ calls[2] = Call("suspend", "c1", "true")
  /\ calls[3] = Call("resume", NullHandle, "err")
  /\ resumed = <<[h |-> "c1", by |-> "completer"]>>

\* C7 (suspend result passthrough): in both modes await_suspend returns
\* what the wrapped await_suspend returned; with an executor, a call the
\* wrapped awaiter answers false leaves the continuation stored in the
\* trampoline, the trampoline where it was, and nothing added to the
\* executor or to what the wrapped operation will resume.
C7_SuspendPassthrough ==
  /\ [](\A i \in DOMAIN calls :
          calls[i].op = "suspend" =>
            /\ wcalls[i].op = "suspend"
            /\ calls[i].ret = wcalls[i].ret)
  /\ [][(/\ ExecMode
          /\ Len(calls') = Len(calls) + 1
          /\ calls'[Len(calls')].op = "suspend"
          /\ calls'[Len(calls')].ret = "false")
        => /\ frame'.awaiter_ = calls'[Len(calls')].arg
           /\ frame'.point = frame.point
           /\ frame'.alive
           /\ (trampResumes = 0 => frame'.point = "initial")
           /\ adds' = adds
           /\ queue' = queue
           /\ held' = held
           /\ pcFire' = pcFire]_vars

C7_Witness ==
  /\ ExecMode
  /\ calls = <<Call("suspend", "c2", "false")>>
  /\ frame.awaiter_ = "c2"
  /\ frame.point = "initial"
  /\ adds = <<>>

\* C8 (resume propagation): in both modes await_resume returns the value
\* the wrapped await_resume produces, or raises the error it raises,
\* unchanged; the call does not touch the executor or the trampoline.
C8_ResumePropagates ==
  [][(/\ Len(calls') = Len(calls) + 1
      /\ calls'[Len(calls')].op = "resume")
    => /\ calls'[Len(calls')].ret = awaitable_.result
       /\ wcalls' = Append(wcalls, calls'[Len(calls')])
       /\ frame' = frame
       /\ pcFire' = pcFire
       /\ trampResumes' = trampResumes
       /\ adds' = adds
       /\ queue' = queue
       /\ proc' = proc]_vars

C8_Witness ==
  /\ ExecMode
  /\ Len(calls) = 2
  /\ calls[1].op = "suspend"
  /\ calls[2] = Call("resume", NullHandle, "err")
  /\ frame.point = "final"

\* C9 (scheduling failure is fatal): when Executor::add throws in the
\* trampoline's final awaiter, the process is terminated with a fatal
\* report; the continuation is neither resumed nor left with the executor,
\* and nothing runs afterwards.
C9_SchedulingFailureFatal ==
  \A i \in DOMAIN adds :
    adds[i].threw =>
      /\ proc = "terminated"
      /\ fatal # "none"
      /\ i = Len(adds)
      /\ pcFire = NotFiring
      /\ Len(resumed) + Len(queue) = Cardinality(Posted)
      /\ \A j \in DOMAIN resumed : resumed[j].by = "executor"

C9_Witness ==
  /\ ExecMode
  /\ adds = <<[f |-> "c1", threw |-> TRUE]>>
  /\ proc = "terminated"
  /\ resumed = <<>>

\* C10 (already-ready operation): with an executor and an awaiter that is
\* ready, await_ready returns true, and an await that therefore never calls
\* await_suspend leaves the trampoline untouched and the executor unused,
\* while await_resume returns the awaiter's result in the call itself.
C10_AlreadyReady ==
  (ExecMode /\ life = "alive" /\ awaitable_.ready = "true") =>
    /\ \A i \in DOMAIN calls :
         /\ calls[i].op = "ready" => calls[i].ret = "true"
         /\ calls[i].op = "resume" => calls[i].ret = awaitable_.result
    /\ SuspendArgs = {} =>
         /\ frame = [awaitWrapper EXCEPT !.executor_ = frame.executor_]
         /\ held = <<>>
         /\ trampResumes = 0
         /\ pcFire = NotFiring
         /\ adds = <<>>
         /\ queue = <<>>
         /\ resumed = <<>>

C10_Witness ==
  /\ ExecMode
  /\ life = "alive"
  /\ calls = <<Call("ready", NullHandle, "true"), Call("resume", NullHandle, "v1")>>
  /\ adds = <<>>

\* C11 (lifetime of an unused adapter): an adapter constructed, with or
\* without an executor, and destroyed without await_suspend ever being
\* called has released its trampoline frame, if it had one, exactly once
\* and the awaiter it owned exactly once, and the executor was never called.
C11_UnusedAdapterReleased ==
  (life = "destroyed" /\ SuspendArgs = {}) =>
    /\ framesCreated = (IF ExecMode THEN 1 ELSE 0)
    /\ framesDestroyed = framesCreated
    /\ ~frame.alive
    /\ awaitable_ = Nullopt
    /\ awaitersDestroyed = (IF original = NoAwaiter THEN 1 ELSE 0)
    /\ adds = <<>> /\ queue = <<>>
    /\ pcFire = NotFiring /\ trampResumes = 0

C11_Witness ==
  /\ ExecMode /\ life = "destroyed" /\ SuspendArgs = {}
  /\ calls # <<>>
  /\ framesDestroyed = 1 /\ awaitersDestroyed = 1

\* The awaiters of operations that are still pending when awaited.
PendingAwaitables == {a \in Awaitables : a.ready = "false" /\ a.result = "v1"}

\* The adapter constructed, moved from instance to instance, suspended on
\* and destroyed, every instance in its own time.
NextMove ==
  \/ \E a \in PendingAwaitables : create(a)
  \/ \E a \in PendingAwaitables, e \in Executors : createExec(a, e)
  \/ Move
  \/ \E i \in 1..MaxMoves : DestroyHusk(i)
  \/ Destroy
  \/ \E c \in Continuations : await_suspend_arm(c)
  \/ await_suspend_publish
  \/ await_suspend_return
  \/ \E c \in Continuations : await_suspend_direct(c)
  \/ Complete
  \/ FinalAwaiter_await_suspend(FALSE)
  \/ FinalAwaiter_return
  \/ ExecutorRun

MoveSpec == Init /\ [][NextMove]_vars

AllDestroyed ==
  life = "destroyed" /\ \A i \in DOMAIN husks : husks[i].life = "destroyed"

\* C12 (move transfers ownership): after a move construction the source
\* owns neither the trampoline frame nor the awaiter and the new instance
\* owns both; over any chain of moves, once every instance is destroyed the
\* frame was destroyed exactly once, by the last owner and never by a
\* moved-from instance, and so was the awaiter.
C12_MoveTransfersOwnership ==
  /\ \A i \in DOMAIN husks :
       husks[i].promise_ = NullPromise /\ husks[i].awaitable_ = Nullopt
  /\ life = "alive" =>
       /\ awaitable_ # Nullopt
       /\ ExecMode => promise_ = ThePromise /\ frame.alive
  /\ huskFrameDestroys = 0
  /\ framesDestroyed <= framesCreated
  /\ awaitersDestroyed <= 1
  /\ AllDestroyed /\ life = "destroyed" =>
       framesDestroyed = framesCreated /\ awaitersDestroyed = 1

C12_Witness ==
  /\ ExecMode /\ AllDestroyed
  /\ Len(husks) = MaxMoves
  /\ husks[1].life = "destroyed" /\ framesDestroyed = 1

\* The adapter built by createAwaitWrapper on every kind of awaitable, then
\* driven, while the awaiter it may refer to changes.
NextWrap ==
  \/ \E k \in Candidates : createAwaitWrapper(k)
  \/ \E k \in Candidates, e \in Executors : createAwaitWrapperExec(k, e)
  \/ MutateOriginal
  \/ await_ready
  \/ \E c \in Continuations : await_suspend_arm(c)
  \/ await_suspend_publish
  \/ await_suspend_return
  \/ \E c \in Continuations : await_suspend_direct(c)
  \/ await_resume
  \/ Destroy
  \/ Complete
  \/ FinalAwaiter_await_suspend(FALSE)
  \/ FinalAwaiter_return
  \/ ExecutorRun

WrapSpec == Init /\ [][NextWrap]_vars

LastWrapped == wcalls'[Len(wcalls')]

\* C13 (reference preservation): where get_awaiter yields a reference the
\* adapter holds a std::reference_wrapper and no copy, so await_ready,
\* await_suspend and await_resume act on the original awaiter in the state
\* it has at the call, and the adapter's destructor leaves it alone; where
\* get_awaiter yields a value the adapter holds that value, refers to
\* nothing outside and destroys the value with itself.
C13_ReferencePreserved ==
  [][/\ \A i \in DOMAIN conversions' :
          LET g == get_awaiter(conversions'[i].of) IN
            /\ g.ref => original' # NoAwaiter
            /\ ~g.ref => original' = NoAwaiter
            /\ life' = "alive" =>
                 awaitable_' = (IF g.ref THEN ReferenceWrapper ELSE g.aw)
     /\ (original # NoAwaiter /\ Len(wcalls') = Len(wcalls) + 1) =>
          /\ LastWrapped.op = "ready" => LastWrapped.ret = original.ready
          /\ LastWrapped.op = "resume" => LastWrapped.ret = original.result
          /\ LastWrapped.op = "suspend" =>
               LastWrapped.ret \in Wrapped_await_suspend_results(original)
     /\ (life = "alive" /\ life' = "destroyed") =>
          /\ original' = original
          /\ awaitersDestroyed' =
               awaitersDestroyed + (IF original = NoAwaiter THEN 1 ELSE 0)
    ]_vars

\* The referred-to awaiter changed between two calls of await_ready, and
\* the second call saw the change.
C13_Witness ==
  /\ original # NoAwaiter
  /\ Len(wcalls) = 3
  /\ wcalls[1] = Call("ready", NullHandle, "false")
  /\ wcalls[2] = Call("ready", NullHandle, "true")
  /\ wcalls[3] = Call("resume", NullHandle, "err")

\* The strategy get_awaiter is to select for an awaitable.
Selected(k) ==
  IF k.member # "none" THEN "member"
  ELSE IF k.free # "none" THEN "free"
  ELSE "self"

\* C15 (capability normalization): whatever combination of member
\* conversion, free conversion and native protocol the awaitable offers,
\* get_awaiter takes the member conversion if there is one, else the free
\* one if there is one, else the awaitable itself, and constructing an
\* adapter runs the selected conversion exactly once.
C15_CapabilityNormalization ==
  /\ \A i \in DOMAIN conversions :
       conversions[i].strategy = Selected(conversions[i].of)
  /\ life # "none" =>
       /\ Len(conversions) = 1
       /\ life = "alive" =>
            getRef(awaitable_).suspendType =
              (CASE Selected(conversions[1].of) = "member" -> "void"
                 [] Selected(conversions[1].of) = "free" -> "bool"
                 [] Selected(conversions[1].of) = "self" -> "handle")

\* Both conversions are on offer and the member one ran.
C15_Witness ==
  /\ life = "alive"
  /\ Len(conversions) = 1
  /\ conversions[1].of.member # "none" /\ conversions[1].of.free # "none"
  /\ conversions[1].strategy = "member"
  /\ wcalls # <<>>

\* C14 (eager construction): a trampoline frame exists exactly when the
\* adapter was created through the executor entry point, from the moment
\* construction returns; construction records the executor in the frame
\* (executor mode) and stores the awaiter, calls none of the wrapped
\* await_ready, await_suspend, await_resume and posts nothing.
C14_EagerConstruction ==
  /\ [](life = "alive" => (frame.alive <=> ExecMode))
  /\ [][(life = "none" /\ life' = "alive") =>
          /\ entry' = "create" =>
               frame' = NoFrame /\ promise_' = NullPromise /\ framesCreated' = 0
          /\ entry' = "createExec" =>
               /\ promise_' = ThePromise /\ framesCreated' = 1
               /\ frame'.alive /\ frame'.point = "initial"
               /\ frame'.executor_ \in Executors
               /\ frame'.awaiter_ = NullHandle
          /\ awaitable_' \in Awaitables
          /\ wcalls' = <<>> /\ calls' = <<>> /\ held' = <<>>
          /\ adds' = <<>> /\ queue' = <<>>
          /\ trampResumes' = 0 /\ pcFire' = NotFiring
       ]_vars

\* Construction with an executor has just returned.
C14_Witness ==
  /\ ExecMode /\ life = "alive"
  /\ frame = [awaitWrapper EXCEPT !.executor_ = "E"]
  /\ calls = <<>> /\ wcalls = <<>> /\ adds = <<>>

\* C16 (trampoline state machine): the trampoline only moves from Created
\* to Armed and from Armed to Fired; once Fired it is never Created or
\* Armed again, and it is never Fired without having been Armed before.
C16_TrampolineStateMachine ==
  [][TrampState' # TrampState =>
       <<TrampState, TrampState'>> \in
         {<<"None", "Created">>, <<"Created", "Armed">>, <<"Armed", "Fired">>}
    ]_vars

\* A second await_suspend has stored a continuation in the fired
\* trampoline: it stays fired.
C16_Witness ==
  /\ TrampState = "Fired" /\ frame.alive
  /\ Len(adds) = 1 /\ adds[1].f = "c1"
  /\ frame.awaiter_ = "c2"

\* The trampoline has fired and the completer is back from it.
FiringOver == frame.point = "final" /\ pcFire = NotFiring /\ Posted # {}

\* C17 as stated (self-destruction after firing): once the trampoline has
\* posted the continuation its frame is released, as a consequence of
\* firing, and does not stay allocated until the adapter is destroyed.
C17_SelfDestructs ==
  (FiringOver /\ life = "alive") => ~frame.alive

\* C17 as amended: the frame does not release itself. After the post it
\* stays allocated, suspended at its final suspend point, for as long as
\* the adapter lives, and the only step that releases a frame is the
\* adapter's destructor.
C17_ReleasedByDestructor ==
  /\ []((FiringOver /\ life = "alive") => frame.alive)
  /\ [][Len(adds') > Len(adds) =>
          frame'.alive = frame.alive /\ framesDestroyed' = framesDestroyed]_vars
  /\ [][(frame.alive /\ ~frame'.alive) =>
          (life = "alive" /\ life' = "destroyed")]_vars

\* The continuation was posted and has run, the adapter lives and the
\* frame is still allocated.
C17_Witness ==
  /\ FiringOver /\ life = "alive" /\ frame.alive
  /\ framesDestroyed = 0
  /\ resumed # <<>>

\* C18 (teardown of a pending suspension): destroying an adapter whose
\* trampoline is still Created or Armed releases the frame exactly once and
\* posts nothing at destruction, and no post to the executor on behalf of
\* that adapter occurs afterwards.
C18_PendingTeardown ==
  /\ [][(life = "alive" /\ life' = "destroyed"
          /\ TrampState \in {"Created", "Armed"}) =>
          /\ ~frame'.alive /\ framesDestroyed' = framesDestroyed + 1
          /\ adds' = adds /\ queue' = queue /\ pcFire' = pcFire]_vars
  /\ [](destroyedIn \in {"Created", "Armed"} =>
          framesDestroyed = 1 /\ adds = <<>>)

\* The continuation of the latest await_suspend, the call in progress
\* included.
LatestArg ==
  IF pcSuspend.pc # "idle"
    THEN pcSuspend.arg
    ELSE IF SuspendCalls = {}
      THEN NullHandle
      ELSE calls[CHOOSE i \in SuspendCalls : \A j \in SuspendCalls : j <= i].arg

\* C19 (arm before publish): in executor mode the continuation is stored
\* in the trampoline before the wrapped awaiter is given the trampoline's
\* handle, so whenever the wrapped operation completes, be it before
\* await_suspend has returned, the handle read and posted is a continuation
\* given to await_suspend, the latest one, never an unset one.
C19_ArmBeforePublish ==
  /\ (\E i \in DOMAIN held : held[i] = TrampHandle) =>
       frame.awaiter_ # NullHandle /\ frame.awaiter_ = LatestArg
  /\ pcFire.pc # "idle" =>
       pcFire.func # NullHandle /\ pcFire.func \in SuspendArgs
  /\ \A i \in DOMAIN adds :
       adds[i].f # NullHandle /\ adds[i].f \in SuspendArgs
  /\ (ExecMode /\ Cardinality(SuspendArgs) = 1) =>
       \A i \in DOMAIN adds : adds[i].f = LatestArg

\* The wrapped operation completed and the continuation was posted while
\* await_suspend had not returned yet.
C19_Witness ==
  /\ pcSuspend.pc = "published"
  /\ calls = <<>>
  /\ Len(adds) = 1 /\ adds[1].f = pcSuspend.arg
  /\ pcSuspend.arg = "c2"

\* C20 (no frame access after the post): FinalAwaiter::await_suspend has
\* read the executor and the continuation from the frame before it calls
\* add, posts what it read, and from the call of add on neither reads nor
\* writes the frame; so when the executor runs the continuation at once and
\* the adapter is destroyed while the completer is still on its way back
\* from add, no destroyed frame is touched.
C20_NoFrameAccessAfterPost ==
  [][(pcFire.pc \in {"add", "returning"} /\ pcFire' # pcFire) =>
       /\ deadAccess' = deadAccess
       /\ frame' = frame
       /\ Len(adds') > Len(adds) =>
            adds'[Len(adds')].f = pcFire.func /\ pcFire.func \in SuspendArgs
    ]_vars

\* The continuation has run on the executor and the adapter is destroyed
\* while the completer has not returned from add; later it has.
C20_Witness ==
  /\ pcFire.pc = "returning"
  /\ life = "destroyed" /\ ~frame.alive /\ destroyedIn = "Fired"
  /\ \E i \in DOMAIN resumed : resumed[i].by = "executor"
  /\ deadAccess = 0

====
